---- MODULE Spec2Model ----
(***************************************************************************)
(* Model of the construction-schedule editor: the normalized store         *)
(* (sheets, rows, day_cells, audit_log) of db.py, the wide-CSV importer    *)
(* and exporter, and the editor handlers of app.py.                        *)
(*                                                                         *)
(* Text is a string, handled as the sequence of its characters, so that    *)
(* strip, lower, split, int() and float() are computed and not assumed.    *)
(* Python's None and SQL NULL are the value None; the float nan that       *)
(* pandas puts in a blank field is NaN.  Hours are kept in tenths of an    *)
(* hour (8.0 -> 80), with NoHours for None/NULL and NaNHours for the       *)
(* float nan.                                                              *)
(***************************************************************************)
EXTENDS Integers, Sequences, FiniteSets, TLC

\* ------------------------------------------------------------------------
\* Python values
\* ------------------------------------------------------------------------
\* None and the float nan, as values no text of the model is equal to
None == "<None>"
NaN == "<nan>"
NoHours == 0 - 1
NaNHours == 0 - 2

Digits == "0123456789"
Upper == "ABCDEFGHIJKLMNOPQRSTUVWXYZ"
Lower == "abcdefghijklmnopqrstuvwxyz"
\* the characters of the model in code-point order (text ordering of ORDER BY)
Alphabet == " (),./" \o Digits \o Upper \o Lower

\* s[i] of a text
Ch(s, i) == SubSeq(s, i, i)
CharIndex(s, c) == CHOOSE i \in 1..Len(s) : Ch(s, i) = c
HasChar(s, c) == \E i \in 1..Len(s) : Ch(s, i) = c

\* list.index(x) and x in list, for a list of values
IndexIn(seq, x) == CHOOSE i \in 1..Len(seq) : seq[i] = x
Has(seq, x) == \E i \in 1..Len(seq) : seq[i] = x

IsDigit(c) == HasChar(Digits, c)
IsAlpha(c) == HasChar(Upper, c) \/ HasChar(Lower, c)
DigitVal(c) == CharIndex(Digits, c) - 1
Code(c) == CharIndex(Alphabet, c)

\* str.lower()
LowerChar(c) == IF HasChar(Upper, c) THEN Ch(Lower, CharIndex(Upper, c)) ELSE c
RECURSIVE LowerStr(_)
LowerStr(s) == IF s = "" THEN "" ELSE LowerChar(Head(s)) \o LowerStr(Tail(s))

\* str.strip()
RECURSIVE LStrip(_)
LStrip(s) == IF s # "" /\ Head(s) = " " THEN LStrip(Tail(s)) ELSE s
RECURSIVE RStrip(_)
RStrip(s) ==
  IF s # "" /\ Ch(s, Len(s)) = " " THEN RStrip(SubSeq(s, 1, Len(s) - 1)) ELSE s
Strip(s) == RStrip(LStrip(s))

\* str.startswith(p)
StartsWith(s, p) == Len(s) >= Len(p) /\ SubSeq(s, 1, Len(p)) = p

\* str.split()[-1]: the last whitespace-separated token ("" when none)
RECURSIVE LastWordStart(_, _)
LastWordStart(s, i) ==
  IF i = 0 \/ Ch(s, i) = " " THEN i + 1 ELSE LastWordStart(s, i - 1)
LastToken(s) ==
  LET t == RStrip(s) IN SubSeq(t, LastWordStart(t, Len(t)), Len(t))

\* text comparison, character by character in code-point order
RECURSIVE TextLess(_, _)
TextLess(a, b) ==
  IF b = "" THEN FALSE
  ELSE IF a = "" THEN TRUE
  ELSE IF Head(a) # Head(b) THEN Code(Head(a)) < Code(Head(b))
  ELSE TextLess(Tail(a), Tail(b))

AllDigits(s) == s # "" /\ \A i \in 1..Len(s) : IsDigit(Ch(s, i))
RECURSIVE DigitsVal(_)
DigitsVal(s) ==
  IF s = "" THEN 0
  ELSE 10 * DigitsVal(SubSeq(s, 1, Len(s) - 1)) + DigitVal(Ch(s, Len(s)))

\* int(text): the value, or the failure of int() as -1
IntOf(s) == LET t == Strip(s) IN IF AllDigits(t) THEN DigitsVal(t) ELSE 0 - 1

RECURSIVE NatText(_)
NatText(n) ==
  IF n < 10 THEN Ch(Digits, n + 1)
  ELSE NatText(n \div 10) \o Ch(Digits, (n % 10) + 1)

\* str(float) / the text to_csv writes for a float: 80 -> "8.0"
FloatText(h) == NatText(h \div 10) \o "." \o Ch(Digits, (h % 10) + 1)

\* float(text) in tenths: digits, optionally "." and digits; "nan" gives
\* the float nan; anything else raises (reported as NoHours by the caller).
\* Digits after the first decimal are accepted only when they are zeros,
\* the values the model draws have at most one decimal.
DotAt(s) == IF HasChar(s, ".") THEN CharIndex(s, ".") ELSE 0
IntPart(s) == IF DotAt(s) = 0 THEN s ELSE SubSeq(s, 1, DotAt(s) - 1)
FracPart(s) == IF DotAt(s) = 0 THEN "" ELSE SubSeq(s, DotAt(s) + 1, Len(s))
FloatParses(s) ==
  /\ (IntPart(s) # "" \/ FracPart(s) # "")
  /\ \A i \in 1..Len(IntPart(s)) : IsDigit(Ch(IntPart(s), i))
  /\ \A i \in 1..Len(FracPart(s)) : IsDigit(Ch(FracPart(s), i))
  /\ \A i \in 2..Len(FracPart(s)) : Ch(FracPart(s), i) = "0"
FloatOf(s) ==
  10 * DigitsVal(IntPart(s))
    + (IF FracPart(s) = "" THEN 0 ELSE DigitVal(Ch(FracPart(s), 1)))

\* str.replace(",", "")
RECURSIVE RemoveCommas(_)
RemoveCommas(s) ==
  IF s = "" THEN ""
  ELSE IF Head(s) = "," THEN RemoveCommas(Tail(s))
  ELSE Head(s) \o RemoveCommas(Tail(s))

\* str(v) of a DataFrame value: the text itself, "nan" for the float nan
Str(v) == IF v = NaN THEN "nan" ELSE v
\* pd.notna(v)
NotNa(v) == v # NaN /\ v # None

\* ------------------------------------------------------------------------
\* Wide CSV files and pandas.read_csv
\* A file is [columns |-> header names, data |-> rows of fields], every
\* field a text, a blank field the empty text.
\* ------------------------------------------------------------------------
\* pandas renames the k-th repeat of a header name to "name.k"
MangledName(columns, i) ==
  LET k == Cardinality({j \in 1..(i - 1) : columns[j] = columns[i]})
  IN IF k = 0 THEN columns[i] ELSE columns[i] \o "." \o NatText(k)

\* pd.read_csv: unique column names, blank fields become the float nan.
\* A numeric field is kept as the text _coerce_float and str() give the same
\* result for ("4" and 4.0 are both 4.0; no field ends in a zero decimal
\* that a float column would drop).
read_csv(file) ==
  [columns |-> [i \in 1..Len(file.columns) |-> MangledName(file.columns, i)],
   data |-> [r \in 1..Len(file.data) |->
               [c \in 1..Len(file.columns) |->
                  IF c <= Len(file.data[r]) /\ file.data[r][c] # ""
                  THEN file.data[r][c] ELSE NaN]]]

\* row.get(col, None) on a row of the DataFrame
Get(df, r, col) ==
  IF col # None /\ Has(df.columns, col)
  THEN df.data[r][IndexIn(df.columns, col)] ELSE None

\* ------------------------------------------------------------------------
\* import_wide_csv: triplet detection (db.py 258-269)
\* ------------------------------------------------------------------------
DayPrefix == "day "
IsDayColumn(c) == StartsWith(LowerStr(Strip(c)), DayPrefix)
DayNumberOf(c) == IntOf(LastToken(c))

RECURSIVE TripletsFrom(_, _)
TripletsFrom(cols, i) ==
  IF i > Len(cols) THEN <<>>
  ELSE IF IsDayColumn(cols[i]) /\ DayNumberOf(cols[i]) >= 0
       THEN <<[dc |-> cols[i],
               tc |-> IF i + 1 <= Len(cols) THEN cols[i + 1] ELSE None,
               lc |-> IF i + 2 <= Len(cols) THEN cols[i + 2] ELSE None,
               dnum |-> DayNumberOf(cols[i])]>> \o TripletsFrom(cols, i + 1)
       ELSE TripletsFrom(cols, i + 1)
ImportTriplets(cols) == TripletsFrom(cols, 1)

\* ------------------------------------------------------------------------
\* import_wide_csv: helpers
\* ------------------------------------------------------------------------
Outside == "Outside"
GroundFloor == "Ground Floor"
FirstFloorCanon == "1st Floor"
Roof == "Roof"
FirstFloorLower == "first floor"
CANON_SECTIONS == {Outside, GroundFloor, FirstFloorCanon, Roof}

normalize_section(label) ==
  LET lab == Strip(label)
  IN IF lab \in CANON_SECTIONS THEN lab
     ELSE IF LowerStr(lab) = FirstFloorLower THEN FirstFloorCanon
     ELSE None

row_has_any_triplet_values(df, r, triplets) ==
  \E k \in 1..Len(triplets) :
    \E cc \in {triplets[k].dc, triplets[k].tc, triplets[k].lc} :
      /\ cc # None
      /\ NotNa(Get(df, r, cc))
      /\ Strip(Str(Get(df, r, cc))) # ""

as_text(v) ==
  IF v = None \/ v = NaN THEN None
  ELSE IF Strip(Str(v)) # "" THEN Strip(Str(v)) ELSE None

coerce_float(v) ==
  IF v = None THEN NoHours
  ELSE LET s == RemoveCommas(Strip(Str(v)))
       IN IF s = "" THEN NoHours
          ELSE IF LowerStr(s) = "nan" THEN NaNHours
          ELSE IF FloatParses(s) THEN FloatOf(s)
          ELSE NoHours

\* one triplet of one data row: the record appended to cells_bulk, or <<>>
ImportCell(df, r, t, row_id) ==
  LET raw_task == Get(df, r, t.dc)
      raw_hours == IF t.tc # None /\ t.tc # "" THEN Get(df, r, t.tc) ELSE None
      raw_labor == IF t.lc # None /\ t.lc # "" THEN Get(df, r, t.lc) ELSE None
      task0 == as_text(raw_task)
      hours == coerce_float(raw_hours)
      labor == as_text(raw_labor)
      hours_text == as_text(raw_hours)
      task == IF /\ task0 = None /\ hours = NoHours /\ hours_text # None
                 /\ \E i \in 1..Len(hours_text) : IsAlpha(Ch(hours_text, i))
              THEN hours_text ELSE task0
  IN IF task = None /\ hours = NoHours /\ labor = None THEN <<>>
     ELSE <<[row_id |-> row_id, day |-> t.dnum, task |-> task,
             hours |-> hours, labor_code |-> labor]>>

RECURSIVE ImportRowCells(_, _, _, _, _)
ImportRowCells(df, r, triplets, k, row_id) ==
  IF k > Len(triplets) THEN <<>>
  ELSE ImportCell(df, r, triplets[k], row_id)
         \o ImportRowCells(df, r, triplets, k + 1, row_id)

\* the loop over df.iterrows() (db.py 307-352); st carries current_section,
\* row_order, the rows inserted so far, cells_bulk and the rows id sequence
RECURSIVE ImportScan(_, _, _, _, _)
ImportScan(df, triplets, sheet_id, r, st) ==
  IF r > Len(df.data) THEN st
  ELSE
    LET first == df.data[r][1]
        label == IF NotNa(first) THEN Strip(Str(first)) ELSE None
        is_header == ~row_has_any_triplet_values(df, r, triplets)
        canon == normalize_section(IF label = None THEN "" ELSE label)
        row_id == st.rows_id_seq + 1
    IN IF is_header
       THEN ImportScan(df, triplets, sheet_id, r + 1,
              [st EXCEPT !.current_section =
                 IF canon # None THEN canon ELSE st.current_section])
       ELSE IF st.current_section = None
       THEN ImportScan(df, triplets, sheet_id, r + 1, st)
       ELSE ImportScan(df, triplets, sheet_id, r + 1,
              [st EXCEPT
                 !.row_order = st.row_order + 1,
                 !.rows_id_seq = row_id,
                 !.rows = st.rows \cup
                   {[id |-> row_id, sheet_id |-> sheet_id,
                     section |-> st.current_section,
                     subsection |-> IF label = None THEN "" ELSE label,
                     row_order |-> st.row_order + 1]},
                 !.cells_bulk = st.cells_bulk
                   \o ImportRowCells(df, r, triplets, 1, row_id)])

\* ------------------------------------------------------------------------
\* The store.  A database value db has the tables sheets, rows, day_cells,
\* the row count of audit_log and the two id sequences.
\* ------------------------------------------------------------------------
SameKey(c, rec) == c.row_id = rec.row_id /\ c.day = rec.day

\* a plain INSERT of one record: the primary key rejects a second cell
InsertOnly(cells, rec) ==
  IF \E c \in cells : SameKey(c, rec)
  THEN [cells |-> cells, err |-> "UniqueViolation"]
  ELSE [cells |-> cells \cup {rec}, err |-> "ok"]
\* INSERT ... ON CONFLICT (row_id, day) DO UPDATE of one record; the
\* database runs the statement atomically against every other statement on
\* the key, so calls that interleave act one after the other
InsertOnConflictDoUpdate(cells, rec) ==
  [cells |-> {c \in cells : ~SameKey(c, rec)} \cup {rec}, err |-> "ok"]

RECURSIVE InsertAll(_, _, _)
InsertAll(cells, records, k) ==
  IF k > Len(records) THEN [cells |-> cells, err |-> "ok"]
  ELSE LET one == InsertOnConflictDoUpdate(cells, records[k])
       IN IF one.err # "ok" THEN [cells |-> cells, err |-> one.err]
          ELSE InsertAll(one.cells, records, k + 1)

\* one INSERT statement with its constraints: a statement that proposes the
\* same (row_id, day) twice is rejected, and so is a row_id that is no row
ExecuteUpsert(db, records) ==
  IF \E i, j \in 1..Len(records) : i < j /\ SameKey(records[i], records[j])
  THEN [cells |-> db.day_cells, err |-> "CardinalityViolation"]
  ELSE IF \E i \in 1..Len(records) :
            records[i].row_id \notin {r.id : r \in db.rows}
  THEN [cells |-> db.day_cells, err |-> "ForeignKeyViolation"]
  ELSE InsertAll(db.day_cells, records, 1)

\* _audit: one more row in audit_log, kept as the number of rows per op
audit(db, op) == [db EXCEPT !.audit_log[op] = db.audit_log[op] + 1]

upsert_cell(db, row_id, day, task, hours, labor_code) ==
  LET res == ExecuteUpsert(db, <<[row_id |-> row_id, day |-> day,
                                  task |-> task, hours |-> hours,
                                  labor_code |-> labor_code]>>)
  IN IF res.err # "ok" THEN [db |-> db, err |-> res.err]
     ELSE [db |-> audit([db EXCEPT !.day_cells = res.cells], "upsert"),
           err |-> "ok"]

bulk_upsert_cells(db, records) ==
  IF records = <<>> THEN [db |-> db, err |-> "ok"]
  ELSE LET res == ExecuteUpsert(db, records)
       IN IF res.err # "ok" THEN [db |-> db, err |-> res.err]
          ELSE [db |-> audit([db EXCEPT !.day_cells = res.cells], "bulk_upsert"),
                err |-> "ok"]

delete_cell(db, row_id, day) ==
  audit([db EXCEPT !.day_cells =
           {c \in db.day_cells : ~(c.row_id = row_id /\ c.day = day)}],
        "delete")

RowById(db, id) == CHOOSE r \in db.rows : r.id = id

swap_row_order(db, row_id_a, row_id_b) ==
  IF ~(\E r \in db.rows : r.id = row_id_a) \/ ~(\E r \in db.rows : r.id = row_id_b)
  THEN db
  ELSE LET a == RowById(db, row_id_a).row_order
           b == RowById(db, row_id_b).row_order
           rows1 == {IF r.id = row_id_a THEN [r EXCEPT !.row_order = b] ELSE r
                       : r \in db.rows}
           rows2 == {IF r.id = row_id_b THEN [r EXCEPT !.row_order = a] ELSE r
                       : r \in rows1}
       IN audit([db EXCEPT !.rows = rows2], "swap")

get_or_create_sheet(db, name) ==
  IF \E s \in db.sheets : s.name = name
  THEN [db |-> db, id |-> (CHOOSE s \in db.sheets : s.name = name).id]
  ELSE [db |-> [db EXCEPT !.sheets = db.sheets \cup
                            {[id |-> db.sheets_id_seq + 1, name |-> name]},
                          !.sheets_id_seq = db.sheets_id_seq + 1],
        id |-> db.sheets_id_seq + 1]

\* an import that appends: nothing of the sheet is deleted
KeepSheetRows(db, sheet_id) == db
\* "Idempotent re-import for this sheet" (db.py 273-277): the cells of the
\* sheet's rows are deleted, then its rows
DeleteSheetRows(db, sheet_id) ==
  LET old == {r.id : r \in {x \in db.rows : x.sheet_id = sheet_id}}
  IN [db EXCEPT !.day_cells = {c \in db.day_cells : c.row_id \notin old},
                !.rows = {r \in db.rows : r.sheet_id # sheet_id}]

\* import_wide_csv from get_or_create_sheet on (db.py 271-357)
ImportInto(db, df, triplets, sheet_name) ==
  LET got == get_or_create_sheet(db, sheet_name)
      sheet_id == got.id
      wiped == DeleteSheetRows(got.db, sheet_id)
      st == ImportScan(df, triplets, sheet_id, 1,
              [current_section |-> None, row_order |-> 0, rows |-> {},
               cells_bulk |-> <<>>, rows_id_seq |-> wiped.rows_id_seq])
      filled == [wiped EXCEPT !.rows = wiped.rows \cup st.rows,
                              !.rows_id_seq = st.rows_id_seq]
      res == bulk_upsert_cells(filled, st.cells_bulk)
  IN [db |-> res.db, ret |-> sheet_id, err |-> res.err]

\* an import that validates the table after the sheet was taken and wiped
import_then_validate(db, file, sheet_name) ==
  LET df == read_csv(file)
      triplets == ImportTriplets(df.columns)
      got == get_or_create_sheet(db, sheet_name)
      wiped == DeleteSheetRows(got.db, got.id)
  IN IF Len(df.columns) < 2
     THEN [db |-> wiped, ret |-> 0, err |-> "TooFewColumns"]
     ELSE IF triplets = <<>>
     THEN [db |-> wiped, ret |-> 0, err |-> "NoDayColumns"]
     ELSE ImportInto(db, df, triplets, sheet_name)
\* import_wide_csv on the caller's connection: the database it leaves there,
\* the sheet id returned and the error raised ("ok" when none)
import_wide_csv(db, file, sheet_name) ==
  LET df == read_csv(file)
      triplets == ImportTriplets(df.columns)
  IN IF Len(df.columns) < 2
     THEN [db |-> db, ret |-> 0, err |-> "TooFewColumns"]
     ELSE IF triplets = <<>>
     THEN [db |-> db, ret |-> 0, err |-> "NoDayColumns"]
     ELSE ImportInto(db, df, triplets, sheet_name)

\* engine.begin(): commit on return, roll back on an exception; the id
\* sequences are not rolled back
Transaction(db, res) ==
  IF res.err = "ok" THEN res
  ELSE [res EXCEPT !.db = [db EXCEPT !.sheets_id_seq = res.db.sheets_id_seq,
                                     !.rows_id_seq = res.db.rows_id_seq]]

\* get_day_bounds: the least and the greatest day of the sheet's cells
get_day_bounds(db, sheet_id) ==
  LET days == {c.day : c \in {x \in db.day_cells :
                 \E r \in db.rows : r.id = x.row_id /\ r.sheet_id = sheet_id}}
  IN IF days = {} THEN <<1, 90>>
     ELSE <<CHOOSE m \in days : \A x \in days : m <= x,
            CHOOSE m \in days : \A x \in days : x <= m>>

\* ------------------------------------------------------------------------
\* export_wide_csv
\* ------------------------------------------------------------------------
\* ORDER BY section, subsection, row_order; rows that tie are taken in id
\* order
RowBefore(a, b) ==
  IF a.section # b.section THEN TextLess(a.section, b.section)
  ELSE IF a.subsection # b.subsection THEN TextLess(a.subsection, b.subsection)
  ELSE IF a.row_order # b.row_order THEN a.row_order < b.row_order
  ELSE a.id < b.id

RECURSIVE OrderedRows(_)
OrderedRows(rs) ==
  IF rs = {} THEN <<>>
  ELSE LET first == CHOOSE r \in rs : \A o \in rs \ {r} : RowBefore(r, o)
       IN <<first>> \o OrderedRows(rs \ {first})

LabelColumn == "Section/Subsection"
TimeColumn == "Time (hours)"
LaborColumn == "Labor (workers)"
EmptyColumn == "Empty"
DayColumn(d) == "Day " \o NatText(d)
\* the keys row_obj is assigned under for day d (db.py 387-389)
TimeKey(d) == TimeColumn
LaborKey(d) == LaborColumn

MaxOf(S) == IF S = {} THEN 0 ELSE CHOOSE m \in S : \A x \in S : x <= m

\* a DataFrame value as to_csv writes it: nothing for None and nan
CsvText(v) == IF v = None \/ v = NaN THEN "" ELSE v
CsvFloat(h) == IF h = NoHours \/ h = NaNHours THEN "" ELSE FloatText(h)

\* the dict row_obj after the assignments for days d..max_day; a later
\* assignment to a key replaces the earlier one
RECURSIVE RowObj(_, _, _, _, _)
RowObj(cells, r, d, max_day, obj) ==
  IF d > max_day THEN obj
  ELSE
    LET found == {c \in cells : c.row_id = r.id /\ c.day = d}
        has == found # {}
        dc == CHOOSE c \in found : TRUE
        task == IF has THEN CsvText(dc.task) ELSE ""
        hours == IF has THEN CsvFloat(dc.hours) ELSE ""
        labor == IF has THEN CsvText(dc.labor_code) ELSE ""
    IN RowObj(cells, r, d + 1, max_day,
         (DayColumn(d) :> task) @@ (TimeKey(d) :> hours)
           @@ (LaborKey(d) :> labor) @@ obj)

RECURSIVE ExportColumns(_, _)
ExportColumns(d, max_day) ==
  IF d > max_day THEN <<>>
  ELSE <<DayColumn(d), TimeColumn, LaborColumn>> \o ExportColumns(d + 1, max_day)

\* the file export_wide_csv writes for sheet_id
export_wide_csv(db, sheet_id) ==
  LET rws == OrderedRows({r \in db.rows : r.sheet_id = sheet_id})
      row_ids == {rws[i].id : i \in 1..Len(rws)}
      dcs == {c \in db.day_cells : c.row_id \in row_ids}
      max_day == MaxOf({c.day : c \in dcs})
      cols == <<LabelColumn>> \o ExportColumns(1, max_day)
  IN IF rws = <<>> THEN [columns |-> <<EmptyColumn>>, data |-> <<>>]
     ELSE [columns |-> cols,
           data |-> [i \in 1..Len(rws) |->
                      LET obj == RowObj(dcs, rws[i], 1, max_day,
                                        (LabelColumn :> rws[i].subsection))
                      IN [k \in 1..Len(cols) |-> obj[cols[k]]]]]

\* ------------------------------------------------------------------------
\* Bounds and the inputs the operations are called with
\* ------------------------------------------------------------------------
\* rows.id values the sequence may hand out
MaxRowId == 4
\* single edits (swap, upsert, delete) a behaviour makes, counted by their
\* rows in audit_log
MaxEdits == 1
\* writes to day_cells a behaviour of SpecWriters makes, counted by their
\* rows in audit_log
MaxWrites == 3
\* days the editor writes to
MaxDay == 2
\* sheets.id values the sequence may hand out
MaxSheetId == 3

NoFile == [name |-> "", columns |-> <<>>, data |-> <<>>]

WideHeader == <<LabelColumn, "Day 1", TimeColumn, LaborColumn,
                "Day 2", TimeColumn, LaborColumn>>
\* two sections, one task row each
FileA == [name |-> "a.csv", columns |-> WideHeader,
          data |-> << <<"Outside", "", "", "", "", "", "">>,
                      <<"Foundation", "Pour", "8.0", "4.02", "", "", "">>,
                      <<"Roof", "", "", "", "", "", "">>,
                      <<"Tiles", "", "", "", "Lay", "abc", "2.06">> >>]
\* one day, one task row; the Day header is not in canonical spelling
FileB == [name |-> "b.csv",
          columns |-> <<"Label", " day 1", "Hrs", "Crew">>,
          data |-> << <<"First Floor", "", "", "">>,
                      <<"Walls", "Brick", "4", "3.01">> >>]
\* FileB's table uploaded under FileA's name
FileB2 == [FileB EXCEPT !.name = "a.csv"]
FileOneColumn == [name |-> "a.csv", columns |-> <<"Day 1">>,
                  data |-> << <<"Outside">>, <<"Pour">> >>]
FileNoDay == [name |-> "b.csv", columns |-> <<"Label", "Task", "Day">>,
              data |-> << <<"Roof", "", "">>, <<"Tiles", "Lay", "2">> >>]
\* two Day columns with the same day number
FileSameDay == [name |-> "b.csv",
                columns |-> <<"Label", "Day 1", "Hrs", "Day 01", "Hrs">>,
                data |-> << <<"Roof", "", "", "", "">>,
                            <<"Tiles", "Lay", "2", "Fix", "3">> >>]
Files == {FileA, FileB, FileB2, FileOneColumn, FileNoDay, FileSameDay}
\* the CSV the deployment keeps in ./data: two task rows of one subsection
SeedFile == [name |-> "plan day1.csv",
             columns |-> <<"Label", "Day 1", "Hrs", "Crew">>,
             data |-> << <<"Roof", "", "", "">>,
                         <<"Tiles", "Lay", "6.5", "2.06">>,
                         <<"Tiles", "", "", "1.06">> >>]

\* (task, hours, labor_code) argument triples of upsert_cell
EditValues == {[task |-> None, hours |-> NoHours, labor_code |-> None],
               [task |-> "Dig", hours |-> 45, labor_code |-> "2.06"]}
Days == 1..MaxDay

\* ------------------------------------------------------------------------
\* State
\* ------------------------------------------------------------------------
VARIABLES sheets, rows, day_cells, audit_log, sheets_id_seq, rows_id_seq,
          out_file, imported, last

vars == <<sheets, rows, day_cells, audit_log, sheets_id_seq, rows_id_seq,
          out_file, imported, last>>

\* the database as one value, and its assignment
DB == [sheets |-> sheets, rows |-> rows, day_cells |-> day_cells,
       audit_log |-> audit_log, sheets_id_seq |-> sheets_id_seq,
       rows_id_seq |-> rows_id_seq]
NoAudit == [op \in {"swap", "upsert", "bulk_upsert", "delete"} |-> 0]
EmptyDB == [sheets |-> {}, rows |-> {}, day_cells |-> {}, audit_log |-> NoAudit,
            sheets_id_seq |-> 0, rows_id_seq |-> 0]
\* the rows single edits have left in audit_log
Edits == audit_log["swap"] + audit_log["upsert"] + audit_log["delete"]
AuditRows == Edits + audit_log["bulk_upsert"]
SetDB(db) ==
  \E d \in {db} :
    /\ sheets' = d.sheets
    /\ rows' = d.rows
    /\ day_cells' = d.day_cells
    /\ audit_log' = d.audit_log
    /\ sheets_id_seq' = d.sheets_id_seq
    /\ rows_id_seq' = d.rows_id_seq

\* the outcome of the last call: operation, arguments, result, error
Call(op, args, ret, err) == [op |-> op, args |-> args, ret |-> ret, err |-> err]

\* the name of the file "Export current sheet as CSV" writes
ExportName(sheet_id) == "export_" \o NatText(sheet_id) \o ".csv"
SheetNames ==
  {f.name : f \in Files \cup {SeedFile}} \cup {ExportName(i) : i \in 1..MaxSheetId}

Init ==
  /\ sheets = {}
  /\ rows = {}
  /\ day_cells = {}
  /\ audit_log = NoAudit
  /\ sheets_id_seq = 0
  /\ rows_id_seq = 0
  /\ out_file = NoFile
  /\ imported = [n \in SheetNames |-> NoFile]
  /\ last = Call("init", <<>>, 0, "ok")

\* ------------------------------------------------------------------------
\* Operations
\* ------------------------------------------------------------------------
\* what a sheet holds, row ids left out: its rows as (section, subsection,
\* row_order, cells of the row)
RowCellsOf(cells, row_id) ==
  {[day |-> c.day, task |-> c.task, hours |-> c.hours,
    labor_code |-> c.labor_code] : c \in {x \in cells : x.row_id = row_id}}
SheetContentOf(rs, cells, sheet_id) ==
  {[section |-> r.section, subsection |-> r.subsection,
    row_order |-> r.row_order, cells |-> RowCellsOf(cells, r.id)]
     : r \in {x \in rs : x.sheet_id = sheet_id}}
SheetContent(db, sheet_id) == SheetContentOf(db.rows, db.day_cells, sheet_id)
SheetIdOf(name) == (CHOOSE sh \in sheets : sh.name = name).id

\* row ids a caller may pass: the ids of the rows, and 0, the id of no row
RowIds == {r.id : r \in rows} \cup {0}

\* import_wide_csv inside "with engine.begin() as conn" (app.py 57-58 and
\* 119-120), under the file's name
ImportCsv(f) ==
  /\ rows_id_seq + Len(f.data) <= MaxRowId
  /\ sheets_id_seq < MaxSheetId
  /\ \E res \in {Transaction(DB, import_wide_csv(DB, f, f.name))} :
        /\ SetDB(res.db)
        /\ imported' = IF res.err = "ok"
                        THEN [imported EXCEPT ![f.name] = f] ELSE imported
        /\ last' = Call("import",
                        [file |-> f, prev |-> imported[f.name],
                         differs |->
                           /\ \E sh \in sheets : sh.name = f.name
                           /\ SheetContent(DB, SheetIdOf(f.name))
                                \notin {{}, SheetContent(res.db, res.ret)}],
                        res.ret, res.err)
  /\ UNCHANGED out_file

\* _ensure_one_sheet (app.py 41-64): with no sheet or no row in the
\* database, the CSV of ./data is imported
EnsureOneSheet ==
  /\ ~(sheets # {} /\ rows # {})
  /\ ImportCsv(SeedFile)

\* "Import CSV into DB" (app.py 113-126)
ImportUploaded == \E f \in Files : ImportCsv(f)
\* the downloaded export, uploaded again
ImportExported == out_file # NoFile /\ ImportCsv(out_file)

\* "Export current sheet as CSV" (app.py 128-133)
ExportCsv ==
  \E s \in sheets :
    /\ out_file' = [name |-> ExportName(s.id)] @@ export_wide_csv(DB, s.id)
    /\ last' = Call("export", [sheet_id |-> s.id], 0, "ok")
    /\ UNCHANGED <<sheets, rows, day_cells, audit_log, sheets_id_seq,
                   rows_id_seq, imported>>

SwapRowOrder ==
  \E a \in RowIds, b \in RowIds :
    /\ Edits < MaxEdits
    /\ SetDB(swap_row_order(DB, a, b))
    /\ last' = Call("swap", [a |-> a, b |-> b], 0, "ok")
    /\ UNCHANGED <<out_file, imported>>

\* a cell exists under the key of rec
Hit(rec) == \E c \in day_cells : SameKey(c, rec)
CellRecord(row_id, day, v) == [row_id |-> row_id, day |-> day] @@ v

UpsertCell ==
  \E row_id \in RowIds, day \in Days, v \in EditValues :
    /\ Edits < MaxEdits
    /\ \E res \in {upsert_cell(DB, row_id, day, v.task, v.hours, v.labor_code)} :
         /\ SetDB(res.db)
         /\ last' = Call("upsert",
                         [records |-> <<CellRecord(row_id, day, v)>>,
                          hit |-> Hit(CellRecord(row_id, day, v))],
                         0, res.err)
    /\ UNCHANGED <<out_file, imported>>

\* bulk_upsert_cells with two records of one row
BulkUpsertCells ==
  \E row_id \in RowIds, d1 \in Days, d2 \in Days, v1 \in EditValues, v2 \in EditValues :
    /\ \E records \in {<<CellRecord(row_id, d1, v1), CellRecord(row_id, d2, v2)>>} :
       \E res \in {bulk_upsert_cells(DB, records)} :
         /\ SetDB(res.db)
         /\ last' = Call("bulk_upsert",
                         [records |-> records,
                          hit |-> Hit(records[1]) \/ Hit(records[2])],
                         0, res.err)
    /\ UNCHANGED <<out_file, imported>>

DeleteCell ==
  \E row_id \in RowIds, day \in Days :
    /\ Edits < MaxEdits
    /\ SetDB(delete_cell(DB, row_id, day))
    /\ last' = Call("delete", [row_id |-> row_id, day |-> day], 0, "ok")
    /\ UNCHANGED <<out_file, imported>>

\* ------------------------------------------------------------------------
\* The editor (app.py)
\* ------------------------------------------------------------------------
\* the rows the Row selectbox offers: "if section and subsection"
EditorRows == {r \in rows : r.section # "" /\ r.subsection # ""}
\* texts typed into "Task name" and "Labor code"
TextInputs == {"", "Dig "}
\* "Time (hours)", min_value 0.0, in tenths of an hour
HoursInputs == {0, 45}

\* the arguments "Apply to this Day" and "Apply to range" pass to upsert_cell
TaskArg(task) == IF Strip(task) # "" THEN task ELSE None
HoursArg(hours) == IF hours > 0 THEN hours ELSE NoHours
LaborArg(labor_code) == IF Strip(labor_code) # "" THEN Strip(labor_code) ELSE None

\* "Apply to this Day" (app.py 193-199)
ApplyToThisDay ==
  \E r \in EditorRows, day \in Days, task \in TextInputs, hours \in HoursInputs,
     labor_code \in TextInputs :
    /\ Edits < MaxEdits
    /\ \E res \in {upsert_cell(DB, r.id, day, TaskArg(task), HoursArg(hours),
                                LaborArg(labor_code))} :
         /\ SetDB(res.db)
         /\ last' = Call("apply_day",
                         [row_id |-> r.id, days |-> {day}, task |-> task,
                          hours |-> hours, labor_code |-> labor_code],
                         0, res.err)
    /\ UNCHANGED <<out_file, imported>>

\* for d in range(a, b + 1): upsert_cell(...) on one connection
RECURSIVE UpsertRange(_, _, _, _, _, _, _)
UpsertRange(db, row_id, d, b, task, hours, labor_code) ==
  IF d > b THEN [db |-> db, err |-> "ok"]
  ELSE LET res == upsert_cell(db, row_id, d, task, hours, labor_code)
       IN IF res.err # "ok" THEN res
          ELSE UpsertRange(res.db, row_id, d + 1, b, task, hours, labor_code)

\* "Apply to range" (app.py 201-211); Range end has min_value Range start
ApplyToRange ==
  \E r \in EditorRows, start_day \in Days, task \in TextInputs,
     hours \in HoursInputs, labor_code \in TextInputs :
    \E end_day \in start_day..MaxDay :
      /\ Edits < MaxEdits
      /\ \E res \in {UpsertRange(DB, r.id, start_day, end_day, TaskArg(task),
                                  HoursArg(hours), LaborArg(labor_code))} :
           /\ SetDB(res.db)
           /\ last' = Call("apply_range",
                           [row_id |-> r.id, days |-> start_day..end_day,
                            task |-> task, hours |-> hours,
                            labor_code |-> labor_code],
                           0, res.err)
      /\ UNCHANGED <<out_file, imported>>

\* fetch_wide_block: the rows of the subsection in row_order and, per row and
\* day of the window, the cell's task, hours and labor_code.  In the
\* DataFrame a Time column that holds a float has nan for None; a column of
\* texts, or of None only, keeps None.
fetch_wide_block(db, sheet_id, section, subsection, start_day, end_day) ==
  LET rws == OrderedRows({r \in db.rows : /\ r.sheet_id = sheet_id
                                          /\ r.section = section
                                          /\ r.subsection = subsection})
      ids == {rws[i].id : i \in 1..Len(rws)}
      at(id, d) == {c \in db.day_cells : c.row_id = id /\ c.day = d}
      is_float(d) == \E id \in ids : \E c \in at(id, d) : c.hours # NoHours
  IN [rws |-> rws,
      cell |-> [id \in ids, d \in start_day..end_day |->
                 IF at(id, d) = {}
                 THEN [task |-> None,
                       hours |-> IF is_float(d) THEN NaNHours ELSE NoHours,
                       labor_code |-> None]
                 ELSE LET c == CHOOSE c \in at(id, d) : TRUE
                      IN [task |-> c.task,
                          hours |-> IF c.hours = NoHours /\ is_float(d)
                                    THEN NaNHours ELSE c.hours,
                          labor_code |-> c.labor_code]]]

\* what the user leaves in a grid cell they edit
GridValues == {[task |-> None, hours |-> NoHours, labor_code |-> None],
               [task |-> " ", hours |-> NaNHours, labor_code |-> ""],
               [task |-> "Dig", hours |-> 45, labor_code |-> None]}

\* "normalize empties" (app.py 276-281): nan is not in (None, "", float("nan")),
\* so str() and float() are applied to it
GridText(v) == IF v = None \/ v = "" THEN None ELSE Strip(Str(v))
GridHours(v) == IF v = NoHours THEN NoHours ELSE v

\* the loop of "Save changes to DB" from row i, day d on
RECURSIVE SaveGrid(_, _, _, _, _, _, _)
SaveGrid(db, rws, edited, i, d, start_day, end_day) ==
  IF i > Len(rws) THEN db
  ELSE IF d > end_day THEN SaveGrid(db, rws, edited, i + 1, start_day, start_day, end_day)
  ELSE LET rid == rws[i].id
           task == GridText(edited[rid, d].task)
           labor == GridText(edited[rid, d].labor_code)
           hours == GridHours(edited[rid, d].hours)
       IN SaveGrid(IF task = None /\ hours = NoHours /\ labor = None
                   THEN delete_cell(db, rid, d)
                   ELSE upsert_cell(db, rid, d, task, hours, labor).db,
                   rws, edited, i, d + 1, start_day, end_day)

\* "Save changes to DB" (app.py 266-286) on the grid of one subsection and a
\* day window inside the sheet's day bounds, after the user edited at most
\* one grid cell
SaveChangesToDB ==
  \E r \in EditorRows :
    \E bounds \in {get_day_bounds(DB, r.sheet_id)} :
    \E hi \in {IF bounds[2] < MaxDay THEN bounds[2] ELSE MaxDay} :
    \E start_day \in bounds[1]..hi :
    \E end_day \in start_day..hi :
    \E sheet_df \in {fetch_wide_block(DB, r.sheet_id, r.section, r.subsection,
                                       start_day, end_day)} :
    \E day \in start_day..end_day :
    \E v \in GridValues \cup {sheet_df.cell[r.id, day]} :
    \E edited \in {[sheet_df.cell EXCEPT ![r.id, day] = v]} :
      /\ Edits < MaxEdits
      /\ SetDB(SaveGrid(DB, sheet_df.rws, edited, 1, start_day, start_day, end_day))
      /\ last' = Call("save",
                      [row_id |-> r.id, days |-> {day}, task |-> v.task,
                       hours |-> v.hours, labor_code |-> v.labor_code,
                       edited |-> v # sheet_df.cell[r.id, day]],
                      0, "ok")
      /\ UNCHANGED <<out_file, imported>>

\* ------------------------------------------------------------------------
\* Specifications
\* ------------------------------------------------------------------------
\* the store's operations with the CSV export and its re-import
Next ==
  \/ ImportUploaded
  \/ ImportExported
  \/ ExportCsv
  \/ SwapRowOrder
  \/ UpsertCell
  \/ DeleteCell

Spec == Init /\ [][Next]_vars

\* imports and single edits of the store
NextStore ==
  \/ ImportUploaded
  \/ SwapRowOrder
  \/ UpsertCell
  \/ DeleteCell

SpecStore == Init /\ [][NextStore]_vars

\* the writers of day_cells on a seeded database
NextWriters ==
  \/ EnsureOneSheet
  \/ AuditRows < MaxWrites /\ UpsertCell
  \/ AuditRows < MaxWrites /\ BulkUpsertCells

SpecWriters == Init /\ [][NextWriters]_vars

\* imports and the editor's write paths
NextEditor ==
  \/ EnsureOneSheet
  \/ ImportUploaded
  \/ ApplyToThisDay
  \/ ApplyToRange
  \/ SaveChangesToDB

SpecEditor == Init /\ [][NextEditor]_vars

\* ------------------------------------------------------------------------
\* utils_csv.py: detect_day_triplets
\* ------------------------------------------------------------------------
\* DAY_COL_PATTERN, ^Day\s*(\d+)$ with IGNORECASE, matched on s: group(1),
\* the digits that follow "day" and any blanks up to the end of s; "" when
\* s does not match
DayColPatternGroup(s) ==
  IF Len(s) >= 3 /\ LowerStr(SubSeq(s, 1, 3)) = "day"
  THEN LET rest == LStrip(SubSeq(s, 4, Len(s)))
       IN IF AllDigits(rest) THEN rest ELSE ""
  ELSE ""

\* the loop of detect_day_triplets from column i on (i counts from 1, the
\* index stored in the tuple from 0 as enumerate does)
RECURSIVE DetectFrom(_, _)
DetectFrom(columns, i) ==
  IF i > Len(columns) THEN <<>>
  ELSE LET m == DayColPatternGroup(Strip(columns[i]))
           time_col == IF i + 1 <= Len(columns) THEN columns[i + 1] ELSE None
           labor_col == IF i + 2 <= Len(columns) THEN columns[i + 2] ELSE None
       IN (IF m # ""
           THEN << <<columns[i], time_col, labor_col, DigitsVal(m), i - 1>> >>
           ELSE <<>>) \o DetectFrom(columns, i + 1)

\* a detector that looks the time and labor columns up by their names
detect_by_name(columns) ==
  [k \in 1..Len(DetectFrom(columns, 1)) |->
     [DetectFrom(columns, 1)[k] EXCEPT
        ![2] = IF Has(columns, TimeColumn) THEN TimeColumn ELSE None,
        ![3] = IF Has(columns, LaborColumn) THEN LaborColumn ELSE None]]
detect_day_triplets(columns) == DetectFrom(columns, 1)

\* header rows of at most MaxColumns names
MaxColumns == 3
\* header names the detector is given
HeaderNames == {LabelColumn, "Day 1", " day 2 ", "Day3", "Day x",
                TimeColumn, LaborColumn}
HeaderLists ==
  {WideHeader} \cup UNION {[1..n -> HeaderNames] : n \in 0..MaxColumns}

\* a header row is handed to the detector
InitDetector ==
  /\ sheets = {}
  /\ rows = {}
  /\ day_cells = {}
  /\ audit_log = NoAudit
  /\ sheets_id_seq = 0
  /\ rows_id_seq = 0
  /\ out_file = NoFile
  /\ imported = [n \in SheetNames |-> NoFile]
  /\ last \in {Call("columns", [columns |-> cols], 0, "ok") : cols \in HeaderLists}

DetectDayTriplets ==
  /\ last.op = "columns"
  /\ last' = Call("detect", last.args,
                  detect_day_triplets(last.args.columns), "ok")
  /\ UNCHANGED <<sheets, rows, day_cells, audit_log, sheets_id_seq,
                 rows_id_seq, out_file, imported>>

SpecDetector == InitDetector /\ [][DetectDayTriplets]_vars

\* ------------------------------------------------------------------------
\* The labor code: build_labor_code, parse_people_from_labor_code
\* (utils_csv.py) and people_from_labor_code (db.py)
\* ------------------------------------------------------------------------
\* int(text): blanks around the number and a sign are accepted; a text that
\* is no integer raises ValueError
PyInt(s) ==
  LET t == Strip(s)
      signed == t # "" /\ Head(t) \in {"+", "-"}
      body == IF signed THEN Tail(t) ELSE t
  IN IF AllDigits(body)
     THEN [val |-> IF signed /\ Head(t) = "-" THEN 0 - DigitsVal(body)
                   ELSE DigitsVal(body),
           err |-> "ok"]
     ELSE [val |-> 0, err |-> "ValueError"]

\* f"{group_id:02d}"
TwoDigits(n) == IF n < 10 THEN "0" \o NatText(n) ELSE NatText(n)
\* max(0, int(x))
NotBelowZero(x) == IF x < 0 THEN 0 ELSE x

\* a code without the separator
build_without_separator(people, group_id) ==
  NatText(NotBelowZero(people)) \o TwoDigits(NotBelowZero(group_id))
build_labor_code(people, group_id) ==
  NatText(NotBelowZero(people)) \o "." \o TwoDigits(NotBelowZero(group_id))

\* the value returned and the exception that leaves the function ("ok"
\* when none): the try/except turns a failure of int() into 0
parse_people_from_labor_code(code) ==
  IF code = None \/ code = "" THEN [val |-> 0, err |-> "ok"]
  ELSE LET got == PyInt(IntPart(Str(code)))
       IN IF got.err # "ok" THEN [val |-> 0, err |-> "ok"] ELSE got

people_from_labor_code(code) ==
  IF code = None \/ code = "" THEN [val |-> 0, err |-> "ok"]
  ELSE LET got == PyInt(IntPart(Str(code)))
       IN IF got.err # "ok" THEN [val |-> 0, err |-> "ok"] ELSE got

\* the greatest people count and group id encoded
MaxPeople == 999
MaxGroup == 99
\* codes handed to the decoders
CodeInputs == {None, "", " ", "abc", ".06", "x.06", "1a.06", "7.06", " 12 .01",
               "-3.06", "40"}

\* a people count and a group id, or a code, is handed to the codec
InitCodec ==
  /\ sheets = {}
  /\ rows = {}
  /\ day_cells = {}
  /\ audit_log = NoAudit
  /\ sheets_id_seq = 0
  /\ rows_id_seq = 0
  /\ out_file = NoFile
  /\ imported = [n \in SheetNames |-> NoFile]
  /\ last \in {Call("people_group", [people |-> p, group_id |-> g], 0, "ok") :
                  p \in 0..MaxPeople, g \in 0..MaxGroup}
              \cup {Call("code", [code |-> c], 0, "ok") : c \in CodeInputs}

\* the code is built and read back by both decoders
BuildAndParse ==
  /\ last.op = "people_group"
  /\ \E code \in {build_labor_code(last.args.people, last.args.group_id)} :
       last' = Call("build_parse", last.args,
                    [code |-> code,
                     utils |-> parse_people_from_labor_code(code),
                     db |-> people_from_labor_code(code)],
                    "ok")
  /\ UNCHANGED <<sheets, rows, day_cells, audit_log, sheets_id_seq,
                 rows_id_seq, out_file, imported>>

ParseCode ==
  /\ last.op = "code"
  /\ last' = Call("parse", last.args,
                  [utils |-> parse_people_from_labor_code(last.args.code),
                   db |-> people_from_labor_code(last.args.code)],
                  "ok")
  /\ UNCHANGED <<sheets, rows, day_cells, audit_log, sheets_id_seq,
                 rows_id_seq, out_file, imported>>

NextCodec ==
  \/ BuildAndParse
  \/ ParseCode

SpecCodec == InitCodec /\ [][NextCodec]_vars

\* ------------------------------------------------------------------------
\* import_wide_csv on tables of one triplet
\* ------------------------------------------------------------------------
\* data lines of a table
MaxLines == 3
TableHeader == <<"Label", "Day 1", "Hrs", "Crew">>
\* the lines a table is made of: a section line, a line with a label that
\* is no section, a line of blanks only, a task line, a task line without
\* label, a line whose hours are no number and whose task is blank
TableLines == {<<"Roof", "", "", "">>,
               <<"Misc", "", "", "">>,
               <<"", "", "", "">>,
               <<"Tiles", " Lay ", "6.5", "2.06">>,
               <<"", "Fix", "", "">>,
               <<"Beam", "", "abc", " 1.06 ">>}
Tables ==
  {[name |-> "a.csv", columns |-> TableHeader, data |-> d] :
     d \in UNION {[1..n -> TableLines] : n \in 0..MaxLines}}

\* a table is uploaded to an empty database
InitImport ==
  /\ sheets = {}
  /\ rows = {}
  /\ day_cells = {}
  /\ audit_log = NoAudit
  /\ sheets_id_seq = 0
  /\ rows_id_seq = 0
  /\ out_file = NoFile
  /\ imported = [n \in SheetNames |-> NoFile]
  /\ last \in {Call("table", [file |-> f], 0, "ok") : f \in Tables}

ImportTable ==
  /\ last.op = "table"
  /\ ImportCsv(last.args.file)

SpecImport == InitImport /\ [][ImportTable]_vars

\* ------------------------------------------------------------------------
\* Claims
\* ------------------------------------------------------------------------
RowsOfSheet(sheet_id) == {r \in rows : r.sheet_id = sheet_id}
CellsOfSheet(sheet_id) ==
  {c \in day_cells : \E r \in RowsOfSheet(sheet_id) : r.id = c.row_id}
\* the (section, subsection, day, task, hours, labor_code) tuples of a sheet
Tuples(sheet_id) ==
  {<<p[1].section, p[1].subsection, p[2].day, p[2].task, p[2].hours,
     p[2].labor_code>> :
     p \in {q \in RowsOfSheet(sheet_id) \X day_cells : q[2].row_id = q[1].id}}
\* out_file is what the sheet exports now
IsExportOf(sheet_id) ==
  out_file = [name |-> ExportName(sheet_id)] @@ export_wide_csv(DB, sheet_id)

\* C1: a sheet whose cells lie on days >= 1, exported and imported from the
\* exported file, gives a sheet with the same (section, subsection, day,
\* task, hours, labor_code) tuples.
RoundTrip ==
  (last.op = "import" /\ last.err = "ok" /\ last.args.file = out_file) =>
    \A s \in sheets :
      (IsExportOf(s.id) /\ \A c \in CellsOfSheet(s.id) : c.day >= 1)
        => Tuples(last.ret) = Tuples(s.id)

\* the content one import of f gives a sheet of an empty database
SingleImport(f) == SheetContent(import_wide_csv(EmptyDB, f, f.name).db, 1)

RejectedFiles ==
  {f \in Files \cup {SeedFile} :
     Len(f.columns) < 2 \/ ImportTriplets(read_csv(f).columns) = <<>>}
\* C3: import_wide_csv called on a reachable database with a file of fewer
\* than 2 columns or without a day column raises and leaves the database
\* it was given: no sheet created, no row or cell deleted.
FailedImportWritesNothing ==
  \A f \in RejectedFiles :
    /\ import_wide_csv(DB, f, f.name).err \in {"TooFewColumns", "NoDayColumns"}
    /\ import_wide_csv(DB, f, f.name).db = DB
\* a rejected file came in under the name of a sheet that has rows
FailedImportOverSheet ==
  /\ last.op = "import"
  /\ last.err \in {"TooFewColumns", "NoDayColumns"}
  /\ \E sh \in sheets : sh.name = last.args.file.name /\ RowsOfSheet(sh.id) # {}

\* C4: swap_row_order on two rows of different sheets changes no row_order.
SwapAcrossSheetsIsNoOp ==
  [][(/\ last'.op = "swap"
      /\ \E ra \in rows, rb \in rows :
           /\ ra.id = last'.args.a /\ rb.id = last'.args.b
           /\ ra.sheet_id # rb.sheet_id)
       => rows' = rows]_vars

\* C5: no two rows of a sheet have the same row_order.
UniqueRowOrder ==
  \A r1 \in rows, r2 \in rows :
    (r1.sheet_id = r2.sheet_id /\ r1.row_order = r2.row_order) => r1.id = r2.id

\* C6: no write fails with a duplicate key, (row_id, day) has at most one
\* cell, and after a write each cell written holds the values of that write.
LastWriterWins ==
  /\ last.err # "UniqueViolation"
  /\ \A c1 \in day_cells, c2 \in day_cells : SameKey(c1, c2) => c1 = c2
  /\ (last.op \in {"upsert", "bulk_upsert"} /\ last.err = "ok") =>
       \A i \in 1..Len(last.args.records) : last.args.records[i] \in day_cells
\* a write landed on a key that already had a cell
WriteOverCell ==
  /\ last.op \in {"upsert", "bulk_upsert"}
  /\ last.err = "ok"
  /\ last.args.hit

\* C7: every stored cell has a task, hours or a labor_code that is not
\* null, and a grid cell saved with its three fields blank leaves no cell.
NoAllNullCell ==
  /\ \A c \in day_cells :
       ~(c.task = None /\ c.hours = NoHours /\ c.labor_code = None)
  /\ (/\ last.op = "save" /\ last.args.edited
      /\ last.args.task = None /\ last.args.hours = NoHours
      /\ last.args.labor_code = None)
       => \A d \in last.args.days :
            ~\E c \in day_cells : c.row_id = last.args.row_id /\ c.day = d

\* the lines of the file that import_wide_csv stores as rows: lines with a
\* triplet value below a line that names a section
StoredLines(df, triplets) ==
  {r \in 1..Len(df.data) :
     /\ row_has_any_triplet_values(df, r, triplets)
     /\ \E h \in 1..(r - 1) :
          /\ ~row_has_any_triplet_values(df, h, triplets)
          /\ NotNa(df.data[h][1])
          /\ normalize_section(Str(df.data[h][1])) # None}
\* the fields of triplet t are blank on line r
BlankTriplet(df, r, t) ==
  \A cc \in {t.dc, t.tc, t.lc} : ~NotNa(Get(df, r, cc))
\* C8: after a successful import, a stored line whose task, hours and labor
\* fields of a triplet are all blank has no cell on that triplet's day.
SparseCellOmission ==
  (last.op = "import" /\ last.err = "ok") =>
    LET df == read_csv(last.args.file)
        triplets == ImportTriplets(df.columns)
        lines == StoredLines(df, triplets)
    IN \A r \in lines, k \in 1..Len(triplets) :
         BlankTriplet(df, r, triplets[k]) =>
           \A row \in RowsOfSheet(last.ret) :
             row.row_order = Cardinality({x \in lines : x <= r}) =>
               ~\E c \in day_cells :
                  c.row_id = row.id /\ c.day = triplets[k].dnum

\* the cell of row_id on day d as the three texts of a CSV line
Rendered(row_id, d) ==
  LET found == {c \in day_cells : c.row_id = row_id /\ c.day = d}
      c == CHOOSE x \in found : TRUE
  IN IF found = {} THEN <<"", "", "">>
     ELSE <<CsvText(c.task), CsvFloat(c.hours), CsvText(c.labor_code)>>
\* C9: in the file just exported, line i is the i-th row of the sheet and
\* its three columns of day d, for every d up to the sheet's greatest day,
\* hold the task, hours and labor_code of the row's cell on day d, a
\* missing cell or null field as the empty text.
ExportRendersEachDay ==
  (last.op = "export" /\ RowsOfSheet(last.args.sheet_id) # {}) =>
    LET rws == OrderedRows(RowsOfSheet(last.args.sheet_id))
        max_day == MaxOf({c.day : c \in CellsOfSheet(last.args.sheet_id)})
    IN /\ Len(out_file.data) = Len(rws)
       /\ \A i \in 1..Len(rws), d \in 1..max_day :
            SubSeq(out_file.data[i], 3 * d - 1, 3 * d + 1) = Rendered(rws[i].id, d)

\* the rows of a section in row_order
RECURSIVE ByRowOrder(_)
ByRowOrder(rs) ==
  IF rs = {} THEN <<>>
  ELSE LET first == CHOOSE r \in rs : \A o \in rs \ {r} :
                      r.row_order < o.row_order
                        \/ (r.row_order = o.row_order /\ r.id < o.id)
       IN <<first>> \o ByRowOrder(rs \ {first})
\* C10: in the file just exported every section of the sheet has a line
\* with the section label in the first column and all other columns blank,
\* followed by the section's rows in row_order, and the file has no other
\* lines.
SectionHeaderRows ==
  (last.op = "export" /\ RowsOfSheet(last.args.sheet_id) # {}) =>
    LET rs == RowsOfSheet(last.args.sheet_id)
        sections == {r.section : r \in rs}
        data == out_file.data
    IN /\ Len(data) = Cardinality(rs) + Cardinality(sections)
       /\ \A sec \in sections :
            LET grp == ByRowOrder({r \in rs : r.section = sec})
            IN \E i \in 1..Len(data) :
                 /\ data[i][1] = sec
                 /\ \A k \in 2..Len(data[i]) : data[i][k] = ""
                 /\ i + Len(grp) <= Len(data)
                 /\ \A k \in 1..Len(grp) : data[i + k][1] = grp[k].subsection

\* the day number of the header names that read "Day <digits>"
DayNumber == ("Day 1" :> 1) @@ ("Day 2" :> 2) @@ (" day 2 " :> 2) @@ ("Day3" :> 3)
\* the column at position i of cols (from 1), None past the end
ColumnAt(cols, i) == IF i <= Len(cols) THEN cols[i] ELSE None
\* C11: detect_day_triplets yields, in column order, one triplet per column
\* that reads "Day <digits>", with that column's name and day number, the
\* column at the next position as time column and the one after it as labor
\* column (None past the end); on the header with "Time (hours)" and
\* "Labor (workers)" repeated after "Day 1" and "Day 2" it yields two
\* triplets, of days 1 and 2, at positions that do not overlap.
DetectorIsPositional ==
  last.op = "detect" =>
    LET cols == last.args.columns
        res == last.ret
        at(k) == res[k][5] + 1
    IN /\ Len(res) = Cardinality({i \in 1..Len(cols) : cols[i] \in DOMAIN DayNumber})
       /\ \A k \in 1..Len(res) :
            /\ at(k) \in 1..Len(cols)
            /\ cols[at(k)] \in DOMAIN DayNumber
            /\ res[k][1] = cols[at(k)]
            /\ res[k][4] = DayNumber[cols[at(k)]]
            /\ res[k][2] = ColumnAt(cols, at(k) + 1)
            /\ res[k][3] = ColumnAt(cols, at(k) + 2)
       /\ \A k1, k2 \in 1..Len(res) : k1 < k2 => at(k1) < at(k2)
       /\ cols = WideHeader =>
            /\ Len(res) = 2
            /\ res[1][4] = 1 /\ res[2][4] = 2
            /\ {at(1), at(1) + 1, at(1) + 2} \cap {at(2), at(2) + 1, at(2) + 2} = {}
\* the detector ran on the header with the repeated names
DetectedRepeatedNames ==
  /\ last.op = "detect"
  /\ last.args.columns = WideHeader
  /\ last.ret[1][2] = last.ret[2][2]

\* the codes that are null, empty or have no integer before the first "."
NoPeopleCodes == {None, "", " ", "abc", ".06", "x.06", "1a.06"}
\* C12: a code built from people in 0..MaxPeople and a group id in
\* 0..MaxGroup is read back as people by parse_people_from_labor_code and
\* by people_from_labor_code; a decoder never raises, and it returns 0 for
\* a code that is null, empty or has no integer before the first ".".
CodecInverse ==
  /\ last.op = "build_parse" =>
       /\ last.ret.utils = [val |-> last.args.people, err |-> "ok"]
       /\ last.ret.db = [val |-> last.args.people, err |-> "ok"]
  /\ last.op = "parse" =>
       /\ last.ret.utils.err = "ok" /\ last.ret.db.err = "ok"
       /\ last.args.code \in NoPeopleCodes =>
            last.ret.utils.val = 0 /\ last.ret.db.val = 0
\* the greatest people count with a one-digit group id was built and read
RoundTripOfLargest ==
  /\ last.op = "build_parse"
  /\ last.args.people = MaxPeople /\ last.args.group_id = 6
  /\ last.ret.code = "999.06"

\* the label of line r, None when the first field is blank
LabelOf(df, r) ==
  IF NotNa(df.data[r][1]) /\ Strip(Str(df.data[r][1])) # ""
  THEN Strip(Str(df.data[r][1])) ELSE None
\* every field of every triplet is blank on line r
AllTripletsBlank(df, r, triplets) ==
  \A k \in 1..Len(triplets) : BlankTriplet(df, r, triplets[k])
\* a section header as the importer's contract defines it
IsSectionHeader(df, r, triplets) ==
  AllTripletsBlank(df, r, triplets) /\ LabelOf(df, r) # None
\* line r, met while a section is current, creates no row
TreatedAsHeader(df, r, triplets) ==
  ImportScan([df EXCEPT !.data = <<df.data[r]>>], triplets, 1, 1,
             [current_section |-> Roof, row_order |-> 0, rows |-> {},
              cells_bulk |-> <<>>, rows_id_seq |-> 0]).rows = {}
\* C13: a line of an imported table is treated as a section header (it
\* creates no row, whatever the current section) exactly when all its
\* triplet fields are blank and its label is not.
HeaderClassification ==
  (last.op = "import" /\ last.err = "ok") =>
    LET df == read_csv(last.args.file)
        triplets == ImportTriplets(df.columns)
    IN \A r \in 1..Len(df.data) :
         TreatedAsHeader(df, r, triplets) <=> IsSectionHeader(df, r, triplets)

\* the section headers above line r whose label is a section
AcceptedAbove(df, r, triplets) ==
  {h \in 1..(r - 1) : /\ IsSectionHeader(df, h, triplets)
                      /\ normalize_section(LabelOf(df, h)) # None}
\* the section current at line r: that of the nearest accepted header above
SectionAt(df, r, triplets) ==
  IF AcceptedAbove(df, r, triplets) = {} THEN None
  ELSE normalize_section(LabelOf(df, MaxOf(AcceptedAbove(df, r, triplets))))
\* the lines that are to create a row: no header, and not an orphan (blank
\* label with no section current)
RowLines(df, triplets) ==
  {r \in 1..Len(df.data) :
     /\ ~IsSectionHeader(df, r, triplets)
     /\ ~(LabelOf(df, r) = None /\ SectionAt(df, r, triplets) = None)}
\* C14: after an import the sheet has exactly one row per line that is
\* neither a header nor an orphan, with the section current at the line,
\* the line's label (or "") as subsection, and row_order counting these
\* lines from 1 in file order.
RowPerDataLine ==
  (last.op = "import" /\ last.err = "ok") =>
    LET df == read_csv(last.args.file)
        triplets == ImportTriplets(df.columns)
        lines == RowLines(df, triplets)
    IN /\ Cardinality(RowsOfSheet(last.ret)) = Cardinality(lines)
       /\ {[section |-> row.section, subsection |-> row.subsection,
            row_order |-> row.row_order] : row \in RowsOfSheet(last.ret)}
          = {[section |-> SectionAt(df, r, triplets),
              subsection |-> IF LabelOf(df, r) = None THEN "" ELSE LabelOf(df, r),
              row_order |-> Cardinality({x \in lines : x <= r})] : r \in lines}

\* C15: every cell an import stores has as task the trimmed Day field of its
\* line (None when blank), as hours the number parsed from the time field
\* (none when blank or not a number) and as labor_code the trimmed labor
\* field (None when blank); the import of a file with unparseable hours
\* succeeds.
CellFieldExtraction ==
  last.op = "import" =>
    LET df == read_csv(last.args.file)
        triplets == ImportTriplets(df.columns)
        lines == StoredLines(df, triplets)
        Blank(v) == ~NotNa(v) \/ Strip(Str(v)) = ""
        Text(v) == IF Blank(v) THEN None ELSE Strip(Str(v))
        Number(v) == IF Blank(v) \/ ~FloatParses(Strip(Str(v))) THEN NoHours
                     ELSE FloatOf(Strip(Str(v)))
    IN /\ last.err = "ok"
       /\ \A c \in CellsOfSheet(last.ret) :
            \E row \in RowsOfSheet(last.ret), r \in lines,
               k \in 1..Len(triplets) :
              /\ row.id = c.row_id
              /\ row.row_order = Cardinality({x \in lines : x <= r})
              /\ triplets[k].dnum = c.day
              /\ c.task = Text(Get(df, r, triplets[k].dc))
              /\ c.hours = Number(Get(df, r, triplets[k].tc))
              /\ c.labor_code = Text(Get(df, r, triplets[k].lc))

====
